---- MODULE Spec2Model ----
(***************************************************************************)
(* CrosswordCreator (generate.py): a crossword as a constraint             *)
(* satisfaction problem.  solve() enforces node consistency, runs AC-3     *)
(* and then a recursive backtracking search.  The recursion of backtrack   *)
(* is an explicit stack of frames; pc is the position in solve().          *)
(*                                                                         *)
(* Words are tuples of letters, offsets are 0-based as in the source.      *)
(***************************************************************************)
EXTENDS Integers, Sequences, FiniteSets, TLC

VARIABLES crossword, domains, pc, arcs, queue, revised, ac3ret,
          assignment, stack, ret, result

vars == <<crossword, domains, pc, arcs, queue, revised, ac3ret,
          assignment, stack, ret, result>>

(***************************************************************************)
(* Bounds of the model.                                                    *)
(***************************************************************************)
\* largest vocabulary (crossword.words) the puzzles are drawn with
MaxVocab == 4

Letters == {"a", "b"}

\* the words a vocabulary is drawn from: the words of 2 letters and four
\* words of 3 letters
WordPool ==
    [1..2 -> Letters]
        \cup {<<"a", "a", "b">>, <<"a", "b", "b">>, <<"b", "a", "b">>,
              <<"b", "b", "a">>}

Vocabularies == {W \in SUBSET WordPool : Cardinality(W) <= MaxVocab}

(***************************************************************************)
(* The puzzle model (crossword.py, an external collaborator): variables,   *)
(* their lengths, and overlaps[x, y], which is <<>> (None) or the pair of  *)
(* offsets <<i, j>>: letter i of x's word is letter j of y's word.         *)
(***************************************************************************)
NoOverlap == <<>>

\* overlaps of a structure from the offsets of its crossing pairs
OverlapsOf(V, cross) ==
    [p \in {q \in V \X V : q[1] # q[2]} |->
        IF p \in DOMAIN cross THEN cross[p]
        ELSE IF <<p[2], p[1]>> \in DOMAIN cross
             THEN <<cross[<<p[2], p[1]>>][2], cross[<<p[2], p[1]>>][1]>>
             ELSE NoOverlap]

Structure(V, len, cross) ==
    [variables |-> V, length |-> len, overlaps |-> OverlapsOf(V, cross)]

\* a grid with no slot at all
StructEmpty == Structure({}, <<>>, <<>>)

\* one across slot of length 3
StructSingle == Structure({"A"}, [v \in {"A"} |-> 3], <<>>)

\* an across and a down slot of length 3 sharing their middle cell
StructCross ==
    Structure({"A", "B"}, [v \in {"A", "B"} |-> 3],
              [p \in {<<"A", "B">>} |-> <<1, 1>>])

\* two across slots of length 3 on rows that do not touch
StructDisjoint == Structure({"A", "B"}, [v \in {"A", "B"} |-> 3], <<>>)

\* across A (row 1, columns 0..2), down B (column 0, rows 0..1) and
\* down C (column 2, rows 0..2)
StructChain ==
    Structure({"A", "B", "C"},
              [v \in {"A", "B", "C"} |-> IF v = "B" THEN 2 ELSE 3],
              [p \in {<<"A", "B">>, <<"A", "C">>} |->
                  IF p[2] = "B" THEN <<0, 1>> ELSE <<2, 1>>])

\* across A (row 0, columns 0..2) and down B (column 1, rows 0..2) sharing
\* A's middle cell, and across C (row 4, columns 0..1), which touches neither
StructCrossApart ==
    Structure({"A", "B", "C"},
              [v \in {"A", "B", "C"} |-> IF v = "C" THEN 2 ELSE 3],
              [p \in {<<"A", "B">>} |-> <<1, 0>>])

Structures ==
    {StructEmpty, StructSingle, StructCross, StructDisjoint, StructChain,
     StructCrossApart}

Variables == crossword.variables
Length(v) == crossword.length[v]
Overlaps(x, y) == crossword.overlaps[<<x, y>>]

\* Crossword.neighbors(var)
Neighbors(x) == {y \in Variables \ {x} : Overlaps(y, x) # NoOverlap}

(***************************************************************************)
(* Python values                                                           *)
(***************************************************************************)
None == [kind |-> "None", value |-> <<>>]
Dict(a) == [kind |-> "dict", value |-> a]
List(s) == [kind |-> "list", value |-> s]
Unset == [kind |-> "unset", value |-> <<>>]

\* truth value of a Python object: None, {} and [] are false
Truthy(o) == o.kind \in {"dict", "list"} /\ DOMAIN o.value # {}

\* word[i], 0-based
Char(w, i) == w[i + 1]

\* the orders in which a set can be iterated
Orders(S) ==
    {s \in [1..Cardinality(S) -> S] : \A i, j \in DOMAIN s : i # j => s[i] # s[j]}

EmptyDict == <<>>

Range(f) == {f[k] : k \in DOMAIN f}

(***************************************************************************)
(* enforce_node_consistency                                                *)
(***************************************************************************)
\* a variant that also keeps the words longer than the slot
NodeConsistentAtLeast(d) ==
    [v \in DOMAIN d |-> {w \in d[v] : Len(w) >= Length(v)}]

NodeConsistent(d) ==
    [v \in DOMAIN d |-> {w \in d[v] : Len(w) = Length(v)}]

(***************************************************************************)
(* revise(x, y)                                                            *)
(***************************************************************************)
\* word[i] == other_word[j] can be evaluated for every pair of the domains
ReviseIndexOK(d, x, y) ==
    \A w \in d[x], v \in d[y] :
        Overlaps(x, y)[1] < Len(w) /\ Overlaps(x, y)[2] < Len(v)

\* a variant with the test of the match inverted
ConflictInverted(d, x, y, w) ==
    \A v \in d[y] : Char(w, Overlaps(x, y)[1]) = Char(v, Overlaps(x, y)[2])

\* a variant that reads both words at x's offset
ConflictSameOffset(d, x, y, w) ==
    \A v \in d[y] : Char(w, Overlaps(x, y)[1]) # Char(v, Overlaps(x, y)[1])

\* a variant in which one word that does not match is a conflict
ConflictAnyMismatch(d, x, y, w) ==
    \E v \in d[y] : Char(w, Overlaps(x, y)[1]) # Char(v, Overlaps(x, y)[2])

\* conflict stays True for word: no other_word matches it
Conflict(d, x, y, w) ==
    \A v \in d[y] : Char(w, Overlaps(x, y)[1]) # Char(v, Overlaps(x, y)[2])

\* self.domains after revise(x, y)
ReviseDomains(d, x, y) ==
    [d EXCEPT ![x] = {w \in d[x] : ~Conflict(d, x, y, w)}]

\* the value revise(x, y) returns
ReviseReturn(d, x, y) == \E w \in d[x] : Conflict(d, x, y, w)

(***************************************************************************)
(* ac3(arcs)                                                               *)
(***************************************************************************)
\* the keys of crossword.overlaps whose value is not None
AllArcs == {p \in DOMAIN crossword.overlaps : crossword.overlaps[p] # NoOverlap}

\* a variant that starts from an empty queue when no arcs are given
SeedQueuesNoDefault(a) ==
    IF Truthy(a) THEN {a.value} ELSE {<<>>}

\* the initial queue for the argument a
SeedQueues(a) ==
    IF Truthy(a) THEN {a.value} ELSE Orders(AllArcs)

\* a variant that appends nothing
RequeueNone(x, y) == {<<>>}

\* a variant that does not leave y out
RequeueAll(x, y) ==
    {[k \in DOMAIN o |-> <<o[k], x>>] : o \in Orders(Neighbors(x))}

\* the arcs (z, x) appended after a revision of (x, y), in any order
Requeue(x, y) ==
    {[k \in DOMAIN o |-> <<o[k], x>>] : o \in Orders(Neighbors(x) \ {y})}

(***************************************************************************)
(* assignment_complete, consistent                                         *)
(***************************************************************************)
AssignmentComplete(a) == Cardinality(DOMAIN domains) = Cardinality(DOMAIN a)

\* assignment[y][j] can be evaluated wherever consistent reaches it
ConsistentIndexOK(a) ==
    \A x \in DOMAIN a : \A y \in Neighbors(x) \cap DOMAIN a :
        Overlaps(x, y)[2] < Len(a[y])

\* a variant without the test that the values are distinct
ConsistentNoDistinct(a) ==
    \A x \in DOMAIN a :
        /\ Length(x) = Len(a[x])
        /\ \A y \in Neighbors(x) :
              ~(y \in DOMAIN a
                /\ Char(a[y], Overlaps(x, y)[2]) # Char(a[x], Overlaps(x, y)[1]))

\* a variant that compares the values of neighbors only
ConsistentDistinctNeighbors(a) ==
    \A x \in DOMAIN a :
        /\ Length(x) = Len(a[x])
        /\ \A y \in Neighbors(x) :
              ~(y \in DOMAIN a
                /\ \/ a[y] = a[x]
                   \/ Char(a[y], Overlaps(x, y)[2]) # Char(a[x], Overlaps(x, y)[1]))

\* a variant without the test of the overlaps
ConsistentNoOverlap(a) ==
    /\ Cardinality(Range(a)) = Cardinality(DOMAIN a)
    /\ \A x \in DOMAIN a : Length(x) = Len(a[x])

Consistent(a) ==
    /\ Cardinality(Range(a)) = Cardinality(DOMAIN a)
    /\ \A x \in DOMAIN a :
          /\ Length(x) = Len(a[x])
          /\ \A y \in Neighbors(x) :
                ~(y \in DOMAIN a
                  /\ Char(a[y], Overlaps(x, y)[2]) # Char(a[x], Overlaps(x, y)[1]))

(***************************************************************************)
(* order_domain_values, select_unassigned_variable                         *)
(***************************************************************************)
\* word[i] != other_word[j] can be evaluated for every pair counted
OrderIndexOK(var, a) ==
    \A n \in Neighbors(var) \ DOMAIN a : ReviseIndexOK(domains, var, n)

\* counter[word]
Counter(var, a, w) ==
    LET N == Neighbors(var) \ DOMAIN a
        hits == {p \in N \X crossword.words :
                    /\ p[2] \in domains[p[1]]
                    /\ \/ w = p[2]
                       \/ Char(w, Overlaps(var, p[1])[1])
                            # Char(p[2], Overlaps(var, p[1])[2])}
    IN Cardinality(hits)

\* a variant that sorts by counter in descending order
OrderDomainValuesDescending(var, a) ==
    {s \in Orders(domains[var]) :
        \A i, j \in DOMAIN s :
            i < j => Counter(var, a, s[i]) >= Counter(var, a, s[j])}

\* the lists a stable sort by counter can return
OrderDomainValues(var, a) ==
    {s \in Orders(domains[var]) :
        \A i, j \in DOMAIN s :
            i < j => Counter(var, a, s[i]) <= Counter(var, a, s[j])}

\* a variant that breaks ties by the lowest degree
SelectLowestDegree(a) ==
    LET remaining == Variables \ DOMAIN a
        Before(u, v) ==
            \/ Cardinality(domains[u]) < Cardinality(domains[v])
            \/ /\ Cardinality(domains[u]) = Cardinality(domains[v])
               /\ Cardinality(Neighbors(u)) < Cardinality(Neighbors(v))
    IN {v \in remaining : \A u \in remaining : ~Before(u, v)}

\* the variables that can be remaining[0] after the sort
SelectUnassignedVariable(a) ==
    LET remaining == Variables \ DOMAIN a
        Before(u, v) ==
            \/ Cardinality(domains[u]) < Cardinality(domains[v])
            \/ /\ Cardinality(domains[u]) = Cardinality(domains[v])
               /\ Cardinality(Neighbors(u)) > Cardinality(Neighbors(v))
    IN {v \in remaining : \A u \in remaining : ~Before(u, v)}

(***************************************************************************)
(* Initial state: a CrosswordCreator just constructed                      *)
(***************************************************************************)
Init ==
    /\ \E s \in Structures, W \in Vocabularies :
          /\ crossword = [variables |-> s.variables, length |-> s.length,
                          overlaps |-> s.overlaps, words |-> W]
          /\ domains = [v \in s.variables |-> W]
    /\ pc = "solve"
    /\ arcs = None
    /\ queue = <<>>
    /\ revised = FALSE
    /\ ac3ret = "unset"
    /\ assignment = EmptyDict
    /\ stack = <<>>
    /\ ret = Unset
    /\ result = Unset

(***************************************************************************)
(* solve(): enforce_node_consistency(), then ac3() with arcs = None        *)
(***************************************************************************)
EnforceNodeConsistency ==
    /\ pc = "solve"
    /\ domains' = NodeConsistent(domains)
    /\ arcs' = None
    /\ pc' = "ac3_seed"
    /\ UNCHANGED <<crossword, queue, revised, ac3ret, assignment, stack, ret,
                   result>>

(***************************************************************************)
(* ac3: the queue is built                                                 *)
(***************************************************************************)
Ac3Seed ==
    /\ pc = "ac3_seed"
    /\ \E q \in SeedQueues(arcs) : queue' = q
    /\ pc' = "ac3_loop"
    /\ UNCHANGED <<crossword, domains, arcs, revised, ac3ret, assignment,
                   stack, ret, result>>

(***************************************************************************)
(* a variant of the iteration that reads queue[0] and leaves it queued     *)
(***************************************************************************)
Ac3StepNoPop ==
    /\ pc = "ac3_loop"
    /\ queue # <<>>
    /\ LET x == Head(queue)[1]
           y == Head(queue)[2]
           rest == queue
       IN IF ~ReviseIndexOK(domains, x, y)
          THEN /\ pc' = "raised"
               /\ queue' = rest
               /\ UNCHANGED <<domains, revised, ac3ret>>
          ELSE /\ domains' = ReviseDomains(domains, x, y)
               /\ revised' = ReviseReturn(domains, x, y)
               /\ IF revised' /\ domains'[x] = {}
                  THEN /\ ac3ret' = "False"
                       /\ queue' = rest
                       /\ pc' = "bt_enter"
                  ELSE /\ IF revised'
                          THEN \E r \in Requeue(x, y) : queue' = rest \o r
                          ELSE queue' = rest
                       /\ UNCHANGED <<ac3ret, pc>>
    /\ UNCHANGED <<crossword, arcs, assignment, stack, ret, result>>

(***************************************************************************)
(* a variant of the iteration without the test for an emptied domain       *)
(***************************************************************************)
Ac3StepNoReturn ==
    /\ pc = "ac3_loop"
    /\ queue # <<>>
    /\ LET x == Head(queue)[1]
           y == Head(queue)[2]
           rest == Tail(queue)
       IN IF ~ReviseIndexOK(domains, x, y)
          THEN /\ pc' = "raised"
               /\ queue' = rest
               /\ UNCHANGED <<domains, revised, ac3ret>>
          ELSE /\ domains' = ReviseDomains(domains, x, y)
               /\ revised' = ReviseReturn(domains, x, y)
               /\ IF revised'
                  THEN \E r \in Requeue(x, y) : queue' = rest \o r
                  ELSE queue' = rest
               /\ UNCHANGED <<ac3ret, pc>>
    /\ UNCHANGED <<crossword, arcs, assignment, stack, ret, result>>

(***************************************************************************)
(* ac3: one iteration of `while queue`                                     *)
(***************************************************************************)
Ac3Step ==
    /\ pc = "ac3_loop"
    /\ queue # <<>>
    /\ LET x == Head(queue)[1]
           y == Head(queue)[2]
           rest == Tail(queue)
       IN IF ~ReviseIndexOK(domains, x, y)
          THEN /\ pc' = "raised"
               /\ queue' = rest
               /\ UNCHANGED <<domains, revised, ac3ret>>
          ELSE /\ domains' = ReviseDomains(domains, x, y)
               /\ revised' = ReviseReturn(domains, x, y)
               /\ IF revised' /\ domains'[x] = {}
                  THEN /\ ac3ret' = "False"
                       /\ queue' = rest
                       /\ pc' = "bt_enter"
                  ELSE /\ IF revised'
                          THEN \E r \in Requeue(x, y) : queue' = rest \o r
                          ELSE queue' = rest
                       /\ UNCHANGED <<ac3ret, pc>>
    /\ UNCHANGED <<crossword, arcs, assignment, stack, ret, result>>

(***************************************************************************)
(* ac3: the queue is empty, return True.  Both callers ignore the value    *)
(* and go on to call backtrack.                                            *)
(***************************************************************************)
Ac3Return ==
    /\ pc = "ac3_loop"
    /\ queue = <<>>
    /\ ac3ret' = "True"
    /\ pc' = "bt_enter"
    /\ UNCHANGED <<crossword, domains, arcs, queue, revised, assignment,
                   stack, ret, result>>

(***************************************************************************)
(* backtrack(assignment)                                                   *)
(***************************************************************************)
Top == stack[Len(stack)]
Pop(s) == SubSeq(s, 1, Len(s) - 1)

\* assignment[var] = word
Bind(a, var, word) ==
    [v \in DOMAIN a \cup {var} |-> IF v = var THEN word ELSE a[v]]

\* a variant that leaves the binding in place
DelNothing(a, var) == a

\* del assignment[var]
Del(a, var) == [v \in DOMAIN a \ {var} |-> a[v]]

\* the list of arcs (neighbor, var) passed to ac3
NeighborArcs(var) ==
    {[k \in DOMAIN o |-> <<o[k], var>>] : o \in Orders(Neighbors(var))}

\* entry: the completeness test, then the variable and the order of its values
BacktrackEnter ==
    /\ pc = "bt_enter"
    /\ IF AssignmentComplete(assignment)
       THEN /\ ret' = Dict(assignment)
            /\ pc' = "bt_return"
            /\ UNCHANGED stack
       ELSE \E var \in SelectUnassignedVariable(assignment) :
              IF ~OrderIndexOK(var, assignment)
              THEN /\ pc' = "raised"
                   /\ UNCHANGED <<stack, ret>>
              ELSE \E vals \in OrderDomainValues(var, assignment) :
                     /\ stack' = Append(stack, [var |-> var, vals |-> vals,
                                                dom0 |-> domains,
                                                assign0 |-> assignment])
                     /\ pc' = "bt_loop"
                     /\ UNCHANGED ret
    /\ UNCHANGED <<crossword, domains, arcs, queue, revised, ac3ret,
                   assignment, result>>

\* the head of `for word in ...`: the next word is bound, or the loop ends
\* and the call returns None.  dom0 records the domains the branch starts
\* from, assign0 the assignment the call was entered with.
BacktrackLoop ==
    /\ pc = "bt_loop"
    /\ IF Top.vals = <<>>
       THEN /\ ret' = None
            /\ stack' = Pop(stack)
            /\ pc' = "bt_return"
            /\ UNCHANGED assignment
       ELSE /\ assignment' = Bind(assignment, Top.var, Head(Top.vals))
            /\ stack' = [stack EXCEPT ![Len(stack)] =
                            [@ EXCEPT !.vals = Tail(@), !.dom0 = domains]]
            /\ ret' = Unset
            /\ pc' = "bt_check"
    /\ UNCHANGED <<crossword, domains, arcs, queue, revised, ac3ret, result>>

\* `if self.consistent(assignment)`: propagate with ac3, else undo
BacktrackCheck ==
    /\ pc = "bt_check"
    /\ IF ~ConsistentIndexOK(assignment)
       THEN pc' = "raised" /\ UNCHANGED arcs
       ELSE IF Consistent(assignment)
            THEN /\ \E l \in NeighborArcs(Top.var) : arcs' = List(l)
                 /\ pc' = "ac3_seed"
            ELSE /\ pc' = "bt_undo"
                 /\ UNCHANGED arcs
    /\ UNCHANGED <<crossword, domains, queue, revised, ac3ret, assignment,
                   stack, ret, result>>

\* `del assignment[var]`
BacktrackUndo ==
    /\ pc = "bt_undo"
    /\ assignment' = Del(assignment, Top.var)
    /\ pc' = "bt_loop"
    /\ UNCHANGED <<crossword, domains, arcs, queue, revised, ac3ret, stack,
                   ret, result>>

\* a call of backtrack has returned ret: to solve(), or to the frame that
\* made the recursive call (`if result: return result`)
BacktrackReturn ==
    /\ pc = "bt_return"
    /\ IF stack = <<>>
       THEN /\ result' = ret
            /\ pc' = "done"
            /\ UNCHANGED stack
       ELSE /\ IF Truthy(ret)
               THEN stack' = Pop(stack) /\ pc' = "bt_return"
               ELSE pc' = "bt_undo" /\ UNCHANGED stack
            /\ UNCHANGED result
    /\ UNCHANGED <<crossword, domains, arcs, queue, revised, ac3ret,
                   assignment, ret>>

Next ==
    \/ EnforceNodeConsistency
    \/ Ac3Seed
    \/ Ac3Step
    \/ Ac3Return
    \/ BacktrackEnter
    \/ BacktrackLoop
    \/ BacktrackCheck
    \/ BacktrackUndo
    \/ BacktrackReturn

Spec == Init /\ [][Next]_vars

\* solve() runs to its end: no step of it waits for anything
FairSpec == Spec /\ WF_vars(Next)

(***************************************************************************)
(* Vocabulary of the properties                                            *)
(***************************************************************************)
\* letter i of x's word and letter j of y's word are the same letter
Agree(x, y, w, v) == w[Overlaps(x, y)[1] + 1] = v[Overlaps(x, y)[2] + 1]

Crossing(x, y) == x # y /\ Overlaps(x, y) # NoOverlap

\* a is a complete assignment that meets the three constraints
IsSolution(a) ==
    /\ DOMAIN a = Variables
    /\ \A x \in Variables : Len(a[x]) = Length(x)
    /\ \A x, y \in Variables : x # y => a[x] # a[y]
    /\ \A x, y \in Variables : Crossing(x, y) => Agree(x, y, a[x], a[y])

Solvable == \E a \in [Variables -> crossword.words] : IsSolution(a)

\* every word of x's domain has a supporting word in y's domain
Supported(x, y) ==
    \A w \in domains[x] : \E v \in domains[y] : Agree(x, y, w, v)

ArcConsistent == \A x, y \in Variables : Crossing(x, y) => Supported(x, y)

SomeDomainEmpty == \E v \in Variables : domains[v] = {}

\* the words of the vocabulary that have v's length
Fitting(v) == {w \in crossword.words : Len(w) = Length(v)}

\* ac3 has just returned (both callers call backtrack next)
Ac3Returned == pc = "bt_enter"

(***************************************************************************)
(* C1: any non-None assignment returned by solve() gives every slot a word *)
(* of the slot's length, all words pairwise distinct, and the letters of   *)
(* every overlapping pair of slots equal at the overlap offsets.           *)
(***************************************************************************)
C1_ReturnedAssignmentIsSolution ==
    (pc = "done" /\ result # None) =>
        result.kind = "dict" /\ IsSolution(result.value)

C1_Witness ==
    /\ pc = "done"
    /\ result.kind = "dict"
    /\ \E x, y \in Variables : Crossing(x, y)

(***************************************************************************)
(* C2: whenever some complete assignment meets the length, distinctness    *)
(* and overlap constraints, solve() returns a complete assignment, not     *)
(* None.                                                                   *)
(***************************************************************************)
C2_SearchIsComplete ==
    (pc = "done" /\ Solvable) =>
        result.kind = "dict" /\ DOMAIN result.value = Variables

C2_Witness ==
    /\ pc = "done"
    /\ Solvable
    /\ Cardinality(Variables) = 3
    /\ result.kind = "dict"

(***************************************************************************)
(* C3: when a branch of backtrack (binding, propagation by ac3, recursive  *)
(* call) has failed and is being undone, self.domains equals, slot by      *)
(* slot, the domains recorded when the branch began.                       *)
(***************************************************************************)
C3_RollbackRestoresDomains ==
    (pc = "bt_undo" /\ ret = None) => domains = Top.dom0

C3_Witness ==
    /\ pc = "bt_undo"
    /\ ret = None
    /\ Neighbors(Top.var) # {}
    /\ domains = Top.dom0

(***************************************************************************)
(* C4: when ac3 was called with no arcs and returns True, every word of    *)
(* domain(x) has a supporting word in domain(y), for every ordered pair    *)
(* (x, y) of slots with an overlap.                                        *)
(***************************************************************************)
C4_Ac3TrueIsArcConsistent ==
    (Ac3Returned /\ ~Truthy(arcs) /\ ac3ret = "True") => ArcConsistent

C4_Witness ==
    /\ Ac3Returned
    /\ arcs = None
    /\ ac3ret = "True"
    /\ \E x \in Variables : domains[x] # {} /\ domains[x] # Fitting(x)
    /\ \E x, y \in Variables : Crossing(x, y)

(***************************************************************************)
(* C5: solve() never calls backtrack while some slot's domain is empty.    *)
(***************************************************************************)
C5_NoSearchOnEmptyDomain ==
    (pc = "bt_enter" /\ stack = <<>>) => ~SomeDomainEmpty

(***************************************************************************)
(* C6: when no complete assignment meets the constraints, solve() raises   *)
(* nothing and returns None.                                               *)
(***************************************************************************)
C6_UnsolvableReturnsNone ==
    ~Solvable => (pc # "raised" /\ (pc = "done" => result = None))

\* two disjoint slots that could only take the same single word
C6_Witness ==
    /\ pc = "done"
    /\ result = None
    /\ Cardinality(Variables) = 2
    /\ \A x, y \in Variables : ~Crossing(x, y)
    /\ \A x \in Variables : Cardinality(Fitting(x)) = 1

(***************************************************************************)
(* C7: solve() terminates, and every call of ac3 ends with its queue       *)
(* drained or with a domain emptied.                                       *)
(***************************************************************************)
C7_SolveTerminates ==
    /\ <>(pc = "done")
    /\ [](Ac3Returned => (queue = <<>> \/ SomeDomainEmpty))

C7_Witness ==
    /\ pc = "done"
    /\ Cardinality(Variables) = 3
    /\ result = None
    /\ ~SomeDomainEmpty

(***************************************************************************)
(* C8: ac3 returns False if some domain is empty when it finishes, and     *)
(* True only if the domains are arc consistent and none is empty.          *)
(***************************************************************************)
C8_Ac3ReturnValue ==
    Ac3Returned =>
        /\ SomeDomainEmpty => ac3ret = "False"
        /\ ac3ret = "True" => (ArcConsistent /\ ~SomeDomainEmpty)

(***************************************************************************)
(* C9: enforce_node_consistency leaves in every slot's domain exactly the  *)
(* words of the previous domain that have the slot's length.               *)
(***************************************************************************)
C9_NodeConsistency ==
    [][pc = "solve" =>
         \A v \in Variables :
            /\ \A w \in domains'[v] : w \in domains[v] /\ Len(w) = Length(v)
            /\ \A w \in domains[v] : Len(w) = Length(v) => w \in domains'[v]]_vars

C9_Witness ==
    /\ pc = "ac3_seed"
    /\ arcs = None
    /\ \E v \in Variables : domains[v] # {} /\ domains[v] # crossword.words
    /\ \E u, v \in Variables : domains[u] # domains[v]

(***************************************************************************)
(* C10: revise(x, y) leaves in domain(x) exactly the words of the previous *)
(* domain(x) that some word of domain(y) agrees with at the overlap, it    *)
(* returns True iff a word was removed, and no other domain changes.       *)
(***************************************************************************)
C10_Revise ==
    [][(pc = "ac3_loop" /\ queue # <<>>) =>
         LET x == Head(queue)[1]
             y == Head(queue)[2]
         IN /\ domains'[x] =
                 {w \in domains[x] : \E v \in domains[y] : Agree(x, y, w, v)}
            /\ revised' = (domains'[x] # domains[x])
            /\ \A z \in Variables \ {x} : domains'[z] = domains[z]]_vars

C10_Witness ==
    /\ pc = "ac3_loop"
    /\ revised
    /\ ~SomeDomainEmpty
    /\ \E x \in Variables : domains[x] # Fitting(x)

(***************************************************************************)
(* C11: ac3 seeds its queue with exactly the arcs the caller lists, also   *)
(* when that list is empty, and with every arc of the puzzle only when the *)
(* argument is None.                                                       *)
(***************************************************************************)
C11_SeedIsCallersArcs ==
    [][pc = "ac3_seed" =>
         IF arcs.kind = "list"
         THEN queue' = arcs.value
         ELSE Len(queue') = Cardinality(AllArcs) /\ Range(queue') = AllArcs]_vars

\* the slots that have no word yet
Unassigned == Variables \ DOMAIN assignment

Size(v) == Cardinality(domains[v])
Degree(v) == Cardinality({u \in Variables : Crossing(u, v)})

\* backtrack has just chosen its slot and the order of the slot's words
Chosen == pc = "bt_enter" /\ pc' = "bt_loop"

(***************************************************************************)
(* C12: the slot select_unassigned_variable returns is unassigned, no      *)
(* unassigned slot has a smaller domain, and no unassigned slot with a     *)
(* domain of the same size has more neighbors.                             *)
(***************************************************************************)
C12_VariableOrdering ==
    [][Chosen =>
         LET v == stack'[Len(stack')].var
         IN /\ v \in Unassigned
            /\ \A u \in Unassigned : Size(v) <= Size(u)
            /\ \A u \in Unassigned : Size(u) = Size(v) => Degree(u) <= Degree(v)]_vars

\* the degree decided the choice
C12_Witness ==
    /\ pc = "bt_loop"
    /\ \E u \in Unassigned :
          /\ Size(u) = Size(Top.var)
          /\ Degree(u) < Degree(Top.var)

\* the words of n's domain that binding var to w rules out
RuledOut(var, n, w) ==
    {v \in domains[n] : v = w \/ ~Agree(var, n, w, v)}

RECURSIVE SumRuledOut(_, _, _)
SumRuledOut(var, N, w) ==
    IF N = {} THEN 0
    ELSE LET n == CHOOSE m \in N : TRUE
         IN Cardinality(RuledOut(var, n, w)) + SumRuledOut(var, N \ {n}, w)

\* the elimination count of w for var
Eliminates(var, w) ==
    SumRuledOut(var, {n \in Unassigned : Crossing(var, n)}, w)

(***************************************************************************)
(* C13: order_domain_values returns every word of domain(var) exactly      *)
(* once, in non-decreasing order of the number of words it rules out in    *)
(* the domains of var's unassigned neighbors.                              *)
(***************************************************************************)
C13_ValueOrdering ==
    [][Chosen =>
         LET v == stack'[Len(stack')].var
             l == stack'[Len(stack')].vals
         IN /\ Range(l) = domains[v]
            /\ Len(l) = Cardinality(domains[v])
            /\ \A i, j \in DOMAIN l :
                  i < j => Eliminates(v, l[i]) <= Eliminates(v, l[j])]_vars

\* the counts decided the order: the words still to try differ in count
C13_Witness ==
    /\ pc = "bt_loop"
    /\ Unassigned \cap Neighbors(Top.var) # {}
    /\ \E i, j \in DOMAIN Top.vals :
          Eliminates(Top.var, Top.vals[i]) < Eliminates(Top.var, Top.vals[j])

\* backtrack is being called from the branch of the frame on top of the stack
RecursiveCall == pc = "bt_enter" /\ stack # <<>>

(***************************************************************************)
(* C14: at the recursive call that follows the binding of slot v to word   *)
(* w, every word left in the domain of an unassigned neighbor of v agrees  *)
(* with w at the overlap of v and that neighbor.                           *)
(***************************************************************************)
C14_DomainsNarrowedToBinding ==
    RecursiveCall =>
        \A n \in Unassigned :
            Crossing(Top.var, n) =>
                \A u \in domains[n] :
                    Agree(Top.var, n, assignment[Top.var], u)

\* ac3 is about to pop an arc and revise it
Revising == pc = "ac3_loop" /\ queue # <<>>

\* the arcs into x from its neighbors other than y
ArcsInto(x, y) == {<<z, x>> : z \in {u \in Variables \ {y} : Crossing(u, x)}}

(***************************************************************************)
(* C15: after arc (x, y) is popped from the head of the queue, a revision  *)
(* that removed a word and left domain(x) non-empty appends to the tail    *)
(* exactly the arcs (z, x) of the neighbors z of x other than y; a         *)
(* revision that removed nothing appends no arc.                           *)
(***************************************************************************)
C15_RequeueRule ==
    [][Revising =>
         LET x == Head(queue)[1]
             y == Head(queue)[2]
             rest == Tail(queue)
             added == SubSeq(queue', Len(rest) + 1, Len(queue'))
         IN /\ (domains'[x] # domains[x] /\ domains'[x] # {}) =>
                  /\ Len(queue') = Len(rest) + Cardinality(ArcsInto(x, y))
                  /\ SubSeq(queue', 1, Len(rest)) = rest
                  /\ Range(added) = ArcsInto(x, y)
            /\ domains'[x] = domains[x] => queue' = rest]_vars

\* the last revision removed a word, and the arc at the tail is queued twice
C15_Witness ==
    /\ pc = "ac3_loop"
    /\ revised
    /\ \E i \in 1..(Len(queue) - 1) : queue[i] = queue[Len(queue)]

(***************************************************************************)
(* C16: the revision that empties domain(x) ends ac3 at once with False;   *)
(* the arcs still queued are not revised and no domain changes after it.   *)
(***************************************************************************)
C16_FailsAtOnce ==
    [][/\ (Revising /\ domains[Head(queue)[1]] # {}
                    /\ domains'[Head(queue)[1]] = {}) =>
              (pc' = "bt_enter" /\ ac3ret' = "False")
       /\ (Ac3Returned /\ ac3ret = "False") =>
              (pc' # "ac3_loop" /\ domains' = domains /\ queue' = queue)]_vars

\* ac3 has returned False with arcs left in its queue
C16_Witness ==
    /\ Ac3Returned
    /\ ac3ret = "False"
    /\ queue # <<>>
    /\ SomeDomainEmpty

\* assignment a holds every binding of assignment b
Keeps(a, b) == \A v \in DOMAIN b : v \in DOMAIN a /\ a[v] = b[v]

(***************************************************************************)
(* C17: a call of backtrack that returns None leaves the assignment as it  *)
(* found it; the binding of a failed candidate is gone before the next     *)
(* candidate is tried; and the bindings the call found are never changed   *)
(* while it runs.                                                          *)
(***************************************************************************)
C17_AssignmentUndo ==
    [][/\ (pc = "bt_loop" /\ pc' = "bt_return") =>
              (ret' = None /\ assignment' = Top.assign0)
       /\ pc' = "bt_loop" => assignment' = stack'[Len(stack')].assign0
       /\ \A k \in DOMAIN stack' : Keeps(assignment', stack'[k].assign0)]_vars

\* inside a nested call, a candidate failed in its recursive call and the
\* next candidate is about to be tried
C17_Witness ==
    /\ pc = "bt_loop"
    /\ ret = None
    /\ Top.vals # <<>>
    /\ assignment # EmptyDict
    /\ assignment = Top.assign0

\* the assigned slots hold distinct words of their lengths that agree where
\* two assigned slots overlap
PartialOK(a) ==
    /\ \A x, y \in DOMAIN a : x # y => a[x] # a[y]
    /\ \A x \in DOMAIN a : Len(a[x]) = Length(x)
    /\ \A x, y \in DOMAIN a : Crossing(x, y) => Agree(x, y, a[x], a[y])

(***************************************************************************)
(* C18: at every call of backtrack the assignment passed in holds pairwise *)
(* distinct words, each of its slot's length, and every two assigned       *)
(* overlapping slots agree at their overlap.                               *)
(***************************************************************************)
C18_PartialAssignmentOK == pc = "bt_enter" => PartialOK(assignment)

C18_Witness ==
    /\ pc = "bt_enter"
    /\ Unassigned # {}
    /\ \E x, y \in DOMAIN assignment : Crossing(x, y)

\* a complete assignment that meets the length and overlap constraints
FitsAndAgrees(a) ==
    /\ \A x \in Variables : Len(a[x]) = Length(x)
    /\ \A x, y \in Variables : Crossing(x, y) => Agree(x, y, a[x], a[y])

Fillings == {a \in [Variables -> crossword.words] : FitsAndAgrees(a)}

(***************************************************************************)
(* C19: no word that a slot takes in a complete assignment meeting the     *)
(* length and overlap constraints is ever removed from the slot's domain.  *)
(***************************************************************************)
C19_PruningKeepsSolutions ==
    \A a \in Fillings : \A v \in Variables : a[v] \in domains[v]

\* the preprocessing is over: it has removed fitting words, and fillings exist
C19_Witness ==
    /\ pc = "bt_enter"
    /\ stack = <<>>
    /\ Fillings # {}
    /\ \E v \in Variables : domains[v] # Fitting(v)

(***************************************************************************)
(* C20: once the first ac3 call of solve() has returned, no step changes   *)
(* self.domains.                                                           *)
(***************************************************************************)
C20_DomainsFrozenInSearch == [][ac3ret # "unset" => domains' = domains]_vars

\* solve() has ended, and its last ac3 call was given an empty list of arcs
\* in a puzzle that has arcs
C20_Witness ==
    /\ pc = "done"
    /\ arcs = List(<<>>)
    /\ AllArcs # {}
    /\ ~SomeDomainEmpty

====
